---- MODULE Spec2Model ----
(***************************************************************************)
(* The autograd toy problem of "1 - PyTorch Introduction": a linear model  *)
(* y_hat = dot(w, x) + b trained by gradient descent, in its two variants  *)
(* (sum-reduction loss with ground truth 3, -2; mean-reduction loss with   *)
(* ground truth 2, -5).                                                    *)
(*                                                                         *)
(* Real numbers are exact rationals [n |-> numerator, d |-> denominator],  *)
(* kept in lowest terms with d > 0.  A tensor is the sequence of its       *)
(* elements; a 0-dim tensor and a tensor of shape [1] are both a sequence  *)
(* of one element.  A division by zero gives the non-finite value NaN,     *)
(* which every operation propagates.                                       *)
(***************************************************************************)
EXTENDS Integers, Sequences, FiniteSets, TLC

\* ------------------------------------------------------------------ bounds
MaxN == 2
MaxEpochs == 2

\* ---------------------------------------------------------------- rationals
Abs(k) == IF k < 0 THEN -k ELSE k

RECURSIVE GCD(_, _)
GCD(p, q) == IF q = 0 THEN p ELSE GCD(q, p % q)

NaN == [n |-> 0, d |-> 0]
Finite(p) == p.d # 0

Frac(n, d) ==
    IF d = 0 THEN NaN
    ELSE LET g == GCD(Abs(n), Abs(d))
             s == IF d < 0 THEN -1 ELSE 1
         IN  [n |-> s * (n \div g), d |-> s * (d \div g)]

RInt(k) == [n |-> k, d |-> 1]

RAdd(p, q) ==
    IF ~Finite(p) \/ ~Finite(q) THEN NaN
    ELSE LET g == GCD(p.d, q.d)
         IN  Frac(p.n * (q.d \div g) + q.n * (p.d \div g), (p.d \div g) * q.d)

RNeg(p) == [n |-> -p.n, d |-> p.d]

RSub(p, q) == RAdd(p, RNeg(q))

RMul(p, q) ==
    IF ~Finite(p) \/ ~Finite(q) THEN NaN
    ELSE LET g1 == GCD(Abs(p.n), q.d)
             g2 == GCD(Abs(q.n), p.d)
         IN  Frac((p.n \div g1) * (q.n \div g2), (p.d \div g2) * (q.d \div g1))

RZero == RInt(0)

\* ------------------------------------------------------------------ tensors
\* torch.ones([n]), and the zeros grad.zero_() leaves behind
Ones(n) == [k \in 1..n |-> RInt(1)]
Zeros(n) == [k \in 1..n |-> RZero]

\* broadcasting of two shapes of which one is [1] or [], or both are equal
BLen(s, t) == IF Len(s) = 1 THEN Len(t) ELSE Len(s)
At(s, k) == IF Len(s) = 1 THEN s[1] ELSE s[k]

TAdd(s, t) == [k \in 1..BLen(s, t) |-> RAdd(At(s, k), At(t, k))]
TSub(s, t) == [k \in 1..BLen(s, t) |-> RSub(At(s, k), At(t, k))]
TSquare(t) == [k \in 1..Len(t) |-> RMul(t[k], t[k])]
\* scalar * tensor
Scale(r, t) == [k \in 1..Len(t) |-> RMul(r, t[k])]

RECURSIVE SumTo(_, _)
SumTo(t, k) == IF k = 0 THEN RZero ELSE RAdd(SumTo(t, k - 1), t[k])

\* torch.sum, torch.mean (sum over the number of elements), torch.dot: 0-dim results
Sum(t) == <<SumTo(t, Len(t))>>
Mean(t) == Scale(Frac(1, Len(t)), Sum(t))
Dot(s, t) == Sum([k \in 1..Len(s) |-> RMul(s[k], t[k])])

\* ------------------------------------------------- the two loops' constants
\* variant 1: loss = torch.sum(...),  y = dot(3*ones, x) - 2
\* variant 2: loss = torch.mean(...), y = dot(2*ones, x) - 5
Reduction(v) == IF v = 1 THEN "sum" ELSE "mean"
Other(red) == IF red = "sum" THEN "mean" ELSE "sum"
Slope(v) == IF v = 1 THEN 3 ELSE 2
Offset(v) == IF v = 1 THEN 2 ELSE 5

\* samples of torch.rand (uniform on [0,1)) and torch.randn (standard normal);
\* the randn samples are kept non-negative so that the squared error of a third
\* and fourth iteration stays within TLC's 32-bit integers
RandVals == {RZero, Frac(1, 2)}
RandnVals == {RZero, RInt(1)}
\* learning_rate: the notebooks' 0.01, and a non-positive step size
LearningRates == {Frac(1, 100), Frac(-1, 100)}

\* -------------------------------------------------- the loop's statements
\* for i in range(epochs)
\* (a loop that also runs for i = epochs)
InRangeInclusive(k, n) == k <= n
InRange(k, n) == k < n

\* y = torch.dot(a*torch.ones([N]), x) - k
\* (one target per data point, y = a*x - k elementwise)
TargetPerPoint(a, k, xs) == TSub(Scale(RInt(a), xs), <<RInt(k)>>)
Target(a, k, xs) == TSub(Dot(Scale(RInt(a), Ones(Len(xs))), xs), <<RInt(k)>>)

\* y_hat = torch.dot(w, x) + b
\* (a prediction without the bias)
PredictNoBias(ws, xs, bs) == Dot(ws, xs)
Predict(ws, xs, bs) == TAdd(Dot(ws, xs), bs)

\* loss = torch.sum((y_hat - y)**2)  /  torch.mean((y_hat - y)**2)
Loss(red, yh, ys) ==
    IF red = "sum" THEN Sum(TSquare(TSub(yh, ys))) ELSE Mean(TSquare(TSub(yh, ys)))

\* loss.backward(): reverse-mode differentiation of the recorded graph
\*   loss <- reduce(sq), sq <- diff**2, diff <- y_hat - y, y_hat <- dot + b, dot <- dot(w, x)
GradSq(red, m) ==
    IF red = "sum" THEN Ones(m) ELSE Scale(Frac(1, m), Ones(m))
GradDiff(red, yh, ys) ==
    LET diff == TSub(yh, ys)
        gs == GradSq(red, Len(diff))
    IN  [k \in 1..Len(diff) |-> RMul(gs[k], RMul(RInt(2), diff[k]))]
\* y_hat has one element: a gradient broadcast over more is summed back to it
GradYHat(red, yh, ys) ==
    LET gd == GradDiff(red, yh, ys)
    IN  IF Len(gd) = Len(yh) THEN gd ELSE Sum(gd)
GradB(red, yh, ys) == GradYHat(red, yh, ys)
GradW(red, yh, ys, xs) == Scale(GradYHat(red, yh, ys)[1], xs)
\* backward() sets .grad when it is None and adds to it otherwise
Accumulate(isNone, grad, g) == IF isNone THEN g ELSE TAdd(grad, g)

\* p -= learning_rate * p.grad
\* (a step along the gradient, p += learning_rate * p.grad)
StepAscent(p, lr, grad) == TAdd(p, Scale(lr, grad))
Step(p, lr, grad) == TSub(p, Scale(lr, grad))

\* p.grad.zero_()
\* (a loop without the reset)
ZeroOfSkipped(grad) == grad
ZeroOf(grad) == Zeros(Len(grad))

\* -------------------------------------------------------------------- state
VARIABLES
    N, epochs, learning_rate,  \* the first cell's settings
    variant,                   \* which of the two notebooks' loops runs
    w, b,                      \* parameters (requires_grad=True)
    wgrad, bgrad, gradIsNone,  \* w.grad, b.grad; gradIsNone: still None
    x, y, y_hat, loss,         \* the loop body's names
    i, pc,                     \* loop index, and the statement to run next
    twin,                      \* the other variant's loop, fed the same w, b, x, y
    wInit,                     \* w as sampled by torch.rand
    wStart, bStart,            \* w, b at the start of the current iteration
    written,                   \* w, b as last written (by torch.rand/ones or an update)
    phases,                    \* phases run so far in the current iteration
    stamp                      \* iteration (1-based) that last wrote each name

vars == <<N, epochs, learning_rate, variant, w, b, wgrad, bgrad, gradIsNone,
          x, y, y_hat, loss, i, pc, twin, wInit, wStart, bStart, written, phases, stamp>>

config == <<N, epochs, learning_rate, variant, wInit>>

Names == {"x", "y", "y_hat", "loss", "grad", "param"}

Init ==
    /\ N \in 0..MaxN
    /\ epochs \in -1..MaxEpochs
    /\ learning_rate \in LearningRates
    /\ variant \in {1, 2}
    /\ w \in [1..N -> RandVals]
    /\ b = Ones(1)
    /\ wgrad = <<>> /\ bgrad = <<>> /\ gradIsNone = TRUE
    /\ x = <<>> /\ y = <<>> /\ y_hat = <<>> /\ loss = <<>>
    /\ i = 0 /\ pc = "for"
    /\ twin = [w |-> w, b |-> b, wgrad |-> <<>>, bgrad |-> <<>>,
               y_hat |-> <<>>, loss |-> <<>>]
    /\ wInit = w
    /\ wStart = w /\ bStart = b
    /\ written = [w |-> w, b |-> b]
    /\ phases = <<>>
    /\ stamp = [n \in Names |-> 0]

\* (a loop whose body runs before the range is tested)
SampleXBodyFirst ==
    /\ pc = "for"
    /\ (i = 0 \/ i < epochs)
    /\ \E xs \in [1..N -> RandnVals] : x' = xs
    /\ pc' = "target"
    /\ wStart' = w /\ bStart' = b
    /\ phases' = <<"sample">>
    /\ stamp' = [stamp EXCEPT !["x"] = i + 1]
    /\ UNCHANGED <<config, w, b, wgrad, bgrad, gradIsNone, y, y_hat, loss, i, twin, written>>

\* x = torch.randn([N])
SampleX ==
    /\ pc = "for"
    /\ InRange(i, epochs)
    /\ \E xs \in [1..N -> RandnVals] : x' = xs
    /\ pc' = "target"
    /\ wStart' = w /\ bStart' = b
    /\ phases' = <<"sample">>
    /\ stamp' = [stamp EXCEPT !["x"] = i + 1]
    /\ UNCHANGED <<config, w, b, wgrad, bgrad, gradIsNone, y, y_hat, loss, i, twin, written>>

\* the loop is exhausted
Finish ==
    /\ pc = "for"
    /\ ~InRange(i, epochs)
    /\ pc' = "done"
    /\ UNCHANGED <<config, w, b, wgrad, bgrad, gradIsNone, x, y, y_hat, loss, i,
                   twin, wStart, bStart, written, phases, stamp>>

ComputeY ==
    /\ pc = "target"
    /\ y' = Target(Slope(variant), Offset(variant), x)
    /\ pc' = "predict"
    /\ phases' = Append(phases, "target")
    /\ stamp' = [stamp EXCEPT !["y"] = i + 1]
    /\ UNCHANGED <<config, w, b, wgrad, bgrad, gradIsNone, x, y_hat, loss, i,
                   twin, wStart, bStart, written>>

ComputeYHat ==
    /\ pc = "predict"
    /\ y_hat' = Predict(w, x, b)
    /\ twin' = [twin EXCEPT !.y_hat = Predict(twin.w, x, twin.b)]
    /\ pc' = "loss"
    /\ phases' = Append(phases, "predict")
    /\ stamp' = [stamp EXCEPT !["y_hat"] = i + 1]
    /\ UNCHANGED <<config, w, b, wgrad, bgrad, gradIsNone, x, y, loss, i,
                   wStart, bStart, written>>

ComputeLoss ==
    /\ pc = "loss"
    /\ loss' = Loss(Reduction(variant), y_hat, y)
    /\ twin' = [twin EXCEPT !.loss = Loss(Other(Reduction(variant)), twin.y_hat, y)]
    /\ pc' = "backward"
    /\ phases' = Append(phases, "loss")
    /\ stamp' = [stamp EXCEPT !["loss"] = i + 1]
    /\ UNCHANGED <<config, w, b, wgrad, bgrad, gradIsNone, x, y, y_hat, i,
                   wStart, bStart, written>>

Backward ==
    /\ pc = "backward"
    /\ wgrad' = Accumulate(gradIsNone, wgrad, GradW(Reduction(variant), y_hat, y, x))
    /\ bgrad' = Accumulate(gradIsNone, bgrad, GradB(Reduction(variant), y_hat, y))
    /\ twin' = [twin EXCEPT
         !.wgrad = Accumulate(gradIsNone, twin.wgrad,
                              GradW(Other(Reduction(variant)), twin.y_hat, y, x)),
         !.bgrad = Accumulate(gradIsNone, twin.bgrad,
                              GradB(Other(Reduction(variant)), twin.y_hat, y))]
    /\ gradIsNone' = FALSE
    /\ pc' = "update"
    /\ phases' = Append(phases, "backward")
    /\ stamp' = [stamp EXCEPT !["grad"] = i + 1]
    /\ UNCHANGED <<config, w, b, x, y, y_hat, loss, i, wStart, bStart, written>>

\* the tensors the two update statements read and write
Params(ws, bs, wg, bg) == [w |-> ws, b |-> bs, wgrad |-> wg, bgrad |-> bg]

\* w -= learning_rate * w.grad
UpdateW(p, lr) == [p EXCEPT !.w = Step(p.w, lr, p.wgrad)]

\* b -= learning_rate * b.grad
\* (an update of b that differentiates the loss again, at the w it now finds)
UpdateBRecomputed(p, lr) ==
    [p EXCEPT !.b = Step(p.b, lr, GradB(Reduction(variant), Predict(p.w, x, p.b), y))]
UpdateB(p, lr) == [p EXCEPT !.b = Step(p.b, lr, p.bgrad)]

\* with torch.no_grad(): w -= learning_rate * w.grad; b -= learning_rate * b.grad
Update ==
    /\ pc = "update"
    /\ LET p == UpdateB(UpdateW(Params(w, b, wgrad, bgrad), learning_rate),
                        learning_rate)
           t == UpdateB(UpdateW(Params(twin.w, twin.b, twin.wgrad, twin.bgrad),
                                learning_rate), learning_rate)
       IN  /\ w' = p.w
           /\ b' = p.b
           /\ twin' = [twin EXCEPT !.w = t.w, !.b = t.b]
    /\ written' = [w |-> w', b |-> b']
    /\ pc' = "zero"
    /\ phases' = Append(phases, "update")
    /\ stamp' = [stamp EXCEPT !["param"] = i + 1]
    /\ UNCHANGED <<config, wgrad, bgrad, gradIsNone, x, y, y_hat, loss, i,
                   wStart, bStart>>

\* (a loop that resets w.grad alone)
ZeroGradOnlyW ==
    /\ pc = "zero"
    /\ wgrad' = ZeroOf(wgrad)
    /\ twin' = [twin EXCEPT !.wgrad = ZeroOf(twin.wgrad)]
    /\ i' = i + 1
    /\ pc' = "for"
    /\ phases' = Append(phases, "zero")
    /\ UNCHANGED <<config, w, b, bgrad, gradIsNone, x, y, y_hat, loss, wStart, bStart,
                   written, stamp>>

\* (a loop that samples x once and goes straight back to the target)
ZeroGradReuseX ==
    /\ pc = "zero"
    /\ wgrad' = ZeroOf(wgrad)
    /\ bgrad' = ZeroOf(bgrad)
    /\ twin' = [twin EXCEPT !.wgrad = ZeroOf(twin.wgrad), !.bgrad = ZeroOf(twin.bgrad)]
    /\ i' = i + 1
    /\ pc' = IF i + 1 < epochs THEN "target" ELSE "for"
    /\ phases' = IF i + 1 < epochs THEN <<"sample">> ELSE Append(phases, "zero")
    /\ UNCHANGED <<config, w, b, gradIsNone, x, y, y_hat, loss, wStart, bStart, written, stamp>>

\* w.grad.zero_(); b.grad.zero_(); then the next i
ZeroGrad ==
    /\ pc = "zero"
    /\ wgrad' = ZeroOf(wgrad)
    /\ bgrad' = ZeroOf(bgrad)
    /\ twin' = [twin EXCEPT !.wgrad = ZeroOf(twin.wgrad), !.bgrad = ZeroOf(twin.bgrad)]
    /\ i' = i + 1
    /\ pc' = "for"
    /\ phases' = Append(phases, "zero")
    /\ UNCHANGED <<config, w, b, gradIsNone, x, y, y_hat, loss, wStart, bStart, written, stamp>>

Next ==
    \/ SampleX
    \/ Finish
    \/ ComputeY
    \/ ComputeYHat
    \/ ComputeLoss
    \/ Backward
    \/ Update
    \/ ZeroGrad

Spec == Init /\ [][Next]_vars

\* the ground truth of a variant's data: w = a in every component, b = -k
TruthW(v, n) == [k \in 1..n |-> RInt(Slope(v))]
TruthB(v) == <<RInt(-Offset(v))>>

\* The loop entered with every component of w either at the ground truth or
\* at 0, and b at the ground truth or at 1.0.
InitNearTruth ==
    /\ N \in 0..MaxN
    /\ epochs \in -1..MaxEpochs
    /\ learning_rate \in LearningRates
    /\ variant \in {1, 2}
    /\ w \in [1..N -> {RInt(Slope(variant)), RZero}]
    /\ b \in {TruthB(variant), Ones(1)}
    /\ wgrad = <<>> /\ bgrad = <<>> /\ gradIsNone = TRUE
    /\ x = <<>> /\ y = <<>> /\ y_hat = <<>> /\ loss = <<>>
    /\ i = 0 /\ pc = "for"
    /\ twin = [w |-> w, b |-> b, wgrad |-> <<>>, bgrad |-> <<>>,
               y_hat |-> <<>>, loss |-> <<>>]
    /\ wInit = w
    /\ wStart = w /\ bStart = b
    /\ written = [w |-> w, b |-> b]
    /\ phases = <<>>
    /\ stamp = [n \in Names |-> 0]

SpecNearTruth == InitNearTruth /\ [][Next]_vars

\* ------------------------------------------------------------------- claims
InBody == pc \in {"target", "predict", "loss", "backward", "update", "zero"}

\* C1: at the end of every iteration (after the update and the reset, before
\* the next iteration starts or the loop ends) every component of w.grad and
\* b.grad is zero.
C1_GradsZeroAfterIteration ==
    (pc \in {"for", "done"} /\ i >= 1) =>
        /\ ~gradIsNone
        /\ Len(wgrad) = N /\ \A k \in 1..N : wgrad[k] = RZero
        /\ bgrad = <<RZero>>

\* C1 witness: a second iteration has ended, and it moved the parameters, so
\* its gradients were not zero before the reset.
C1_Witness ==
    pc = "for" /\ i = 2 /\ N = MaxN /\ w # wStart /\ b # bStart

\* the gradient of this iteration's loss alone, from the parameters the
\* iteration started with and this iteration's x
FreshY == Target(Slope(variant), Offset(variant), x)
FreshYHat == Predict(wStart, x, bStart)
FreshGradW == GradW(Reduction(variant), FreshYHat, FreshY, x)
FreshGradB == GradB(Reduction(variant), FreshYHat, FreshY)

\* C2: the gradients the update reads are exactly the gradient of the current
\* iteration's loss (from this iteration's x, y and the parameters at its
\* start): nothing of an earlier iteration's loss is left in them.
C2_UpdateReadsFreshGradient ==
    pc = "update" => (wgrad = FreshGradW /\ bgrad = FreshGradB)

\* C2 witness: the update of a second iteration is about to read non-zero
\* gradients, after a first iteration whose gradients were non-zero too.
C2_Witness ==
    /\ pc = "update" /\ i = 1 /\ N = MaxN
    /\ wStart # wInit
    /\ bgrad # <<RZero>> /\ wgrad # Zeros(N)

\* e = dot(w, x) + b - y on the parameters the iteration started with
ErrStart == RSub(RAdd(Dot(wStart, x)[1], bStart[1]), y[1])

\* C3: one iteration of the sum-reduction loop changes the parameters by the
\* closed-form rule w <- w - learning_rate*2*e*x, b <- b - learning_rate*2*e,
\* with e = dot(w, x) + b - y on the pre-update parameters.
C3_ClosedFormUpdate ==
    (pc = "zero" /\ Reduction(variant) = "sum") =>
        /\ Len(w) = N
        /\ \A k \in 1..N :
              w[k] = RSub(wStart[k],
                          RMul(learning_rate, RMul(RInt(2), RMul(ErrStart, x[k]))))
        /\ b = <<RSub(bStart[1], RMul(learning_rate, RMul(RInt(2), ErrStart)))>>

\* C3 witness: the sum-reduction loop has updated w and b with a non-zero
\* error, in an iteration that is not the first.
C3_Witness ==
    /\ pc = "zero" /\ Reduction(variant) = "sum" /\ i = 1 /\ N = MaxN
    /\ ErrStart # RZero /\ w # wStart /\ b # bStart

\* C4: with epochs = 0 no iteration body runs and no parameter is written:
\* w and b keep their initial values (w as sampled, b = 1.0).
C4_ZeroStepsLeavesParameters ==
    epochs = 0 =>
        /\ pc \in {"for", "done"}
        /\ w = wInit /\ b = <<RInt(1)>>
        /\ stamp["param"] = 0 /\ phases = <<>>

\* C4 witness: a run with epochs = 0 has ended.
C4_Witness == epochs = 0 /\ pc = "done" /\ N = MaxN

InvalidConfig == epochs <= 0 \/ N <= 0 \/ learning_rate.n <= 0

C7_SumAndMeanCoincide ==
    /\ twin.y_hat = y_hat /\ twin.loss = loss
    /\ twin.wgrad = wgrad /\ twin.bgrad = bgrad
    /\ twin.w = w /\ twin.b = b

\* C7 witness: both loops have finished two iterations with non-zero loss
\* and moved parameters.
C7_Witness ==
    /\ pc = "for" /\ i = 2 /\ N = MaxN
    /\ loss # <<RZero>> /\ w # wStart /\ wStart # wInit

\* C9 as claimed: for N >= 1 data points the target holds one value per
\* data point, y[n] = a*x[n] - k (3*x_n - 2, or 2*x_n - 5).
C9_TargetPerDataPoint ==
    (N >= 1 /\ stamp["y"] = stamp["x"] /\ stamp["y"] >= 1) =>
        /\ Len(y) = N
        /\ \A n \in 1..N :
              y[n] = RSub(RMul(RInt(Slope(variant)), x[n]), RInt(Offset(variant)))

Seven == <<"sample", "target", "predict", "loss", "backward", "update", "zero">>
\* how many of the seven phases have run when pc is at a statement of the body
PhasesBefore(p) ==
    CASE p = "target" -> 1 [] p = "predict" -> 2 [] p = "loss" -> 3
      [] p = "backward" -> 4 [] p = "update" -> 5 [] p = "zero" -> 6

\* C10: in every iteration the seven phases run in the order sample, target,
\* predict, loss, gradients, update, reset, each once; the next iteration
\* starts only after the reset; every phase reads values written in its own
\* iteration, and the parameters an iteration reads are those the previous
\* iteration's update wrote.
C10_PhasesInOrder ==
    /\ Len(phases) <= Len(Seven)
    /\ \A k \in 1..Len(phases) : phases[k] = Seven[k]
    /\ InBody => Len(phases) = PhasesBefore(pc)
    /\ (pc \in {"for", "done"} /\ i >= 1) => phases = Seven
    /\ (pc \in {"for", "done"} /\ i <= 0) => phases = <<>>
    /\ pc = "target" => stamp["x"] = i + 1
    /\ pc = "predict" =>
          (stamp["x"] = i + 1 /\ stamp["y"] = i + 1 /\ stamp["param"] = i)
    /\ pc = "loss" => (stamp["y_hat"] = i + 1 /\ stamp["y"] = i + 1)
    /\ pc = "backward" => stamp["loss"] = i + 1
    /\ pc = "update" =>
          (stamp["grad"] = i + 1 /\ stamp["x"] = i + 1 /\ stamp["param"] = i)
    /\ pc = "zero" => stamp["param"] = i + 1
    /\ (InBody /\ pc # "zero") => (w = written.w /\ b = written.b)

\* C10 witness: a second iteration is about to predict from parameters that
\* the first iteration's update changed, with a newly sampled x.
C10_Witness ==
    /\ pc = "predict" /\ i = 1 /\ N = MaxN
    /\ w # wInit /\ stamp["x"] = 2 /\ stamp["param"] = 1

\* the parameters and gradients the update of the current iteration started from
AtUpdate == Params(wStart, bStart, wgrad, bgrad)

\* C11: the two updates of an iteration are simultaneous with respect to the
\* gradient: b is updated with the gradient of the error on the parameters
\* before w was modified, and running the two update statements in the other
\* order gives the same w and b.
C11_UpdatesAreSimultaneous ==
    pc = "zero" =>
        /\ wgrad = FreshGradW /\ bgrad = FreshGradB
        /\ b = Step(bStart, learning_rate, FreshGradB)
        /\ w = UpdateW(UpdateB(AtUpdate, learning_rate), learning_rate).w
        /\ b = UpdateW(UpdateB(AtUpdate, learning_rate), learning_rate).b

\* C11 witness: a second iteration has updated both w and b by a non-zero
\* gradient.
C11_Witness ==
    /\ pc = "zero" /\ i = 1 /\ N = MaxN
    /\ w # wStart /\ b # bStart /\ wStart # wInit

AtTruth(ws, bs) == ws = TruthW(variant, N) /\ bs = TruthB(variant)

\* C12: the ground truth is a fixed point of the loop.  An iteration that
\* starts with every component of w at a and b at c (3, -2 in the first
\* variant; 2, -5 in the second) computes, for every sampled x and every
\* learning_rate, a loss of 0 and gradients of 0 and leaves w and b as they
\* were; and parameters at the ground truth are still there after any step,
\* so in every later iteration too.
C12_TruthIsFixedPoint ==
    /\ [](AtTruth(wStart, bStart) =>
            /\ AtTruth(w, b)
            /\ pc \in {"loss", "backward", "update", "zero"} => y_hat = y
            /\ (pc \in {"backward", "update", "zero"}
                  \/ (pc \in {"for", "done"} /\ i >= 1)) => loss = <<RZero>>
            /\ (pc \in {"update", "zero"} \/ (pc \in {"for", "done"} /\ i >= 1)) =>
                  (wgrad = Zeros(N) /\ bgrad = <<RZero>>))
    /\ [][AtTruth(w, b) => AtTruth(w', b')]_vars

\* C12 witness: two iterations that started at the ground truth have run to
\* their end on a non-zero x.
C12_Witness ==
    /\ pc = "for" /\ i = 2 /\ N = MaxN
    /\ AtTruth(wInit, bStart) /\ AtTruth(w, b)
    /\ x # Zeros(N)
====
